---- MODULE Spec2Model ----
(***************************************************************************)
(* AirAware AQI dashboard (src/script.js): the AQIService operations       *)
(* (validateCity, getCityByCoords, getCityData, processForecast,           *)
(* getWeatherDescription), AIAnalyst.analyze, and the frontend controller  *)
(* (getUserLocation, fetchData, updateDashboard, showError).               *)
(*                                                                         *)
(* JavaScript values that may be a number, null or undefined are records   *)
(* tagged by t; a thrown exception is a record carrying its message.       *)
(* Array indices are 0-based as in the source.                             *)
(***************************************************************************)
EXTENDS Integers, Sequences, FiniteSets, TLC

VARIABLES
    arg,            \* the arguments of one call of a core operation
    ret,            \* what that call returned or threw
    cityInput,      \* #city-input .value
    inputDisabled,  \* #city-input .disabled
    spinnerHidden,  \* #loading-spinner has class hidden
    cityNameDimmed, \* #city-name has class opacity-50
    errorHidden,    \* #error-message has class hidden
    errorText,      \* #error-message .textContent
    errorTimers,    \* pending setTimeout callbacks of showError
    dashboard,      \* what updateDashboard last wrote
    req,            \* per request: its handler's position and locals
    issued,         \* number of requests issued so far
    geolocation     \* whether navigator.geolocation exists

vars == <<arg, ret, cityInput, inputDisabled, spinnerHidden, cityNameDimmed,
          errorHidden, errorText, errorTimers, dashboard, req, issued, geolocation>>

coreVars == <<arg, ret>>

uiVars == <<cityInput, inputDisabled, spinnerHidden, cityNameDimmed,
            errorHidden, errorText, errorTimers, dashboard, req, issued, geolocation>>

(***************************************************************************)
(* JavaScript values                                                       *)
(***************************************************************************)
Num(n) == [t |-> "number", v |-> n]

Null == [t |-> "null"]

Undefined == [t |-> "undefined"]

\* ToBoolean of a number / null / undefined
Truthy(x) == x.t = "number" /\ x.v # 0

\* x || d
OrElse(x, d) == IF Truthy(x) THEN x ELSE d

\* arr[i] of a JS array held as a sequence: undefined outside 0..length-1
At(arr, i) == IF i >= 0 /\ i < Len(arr) THEN arr[i + 1] ELSE Undefined

\* Math.round of the rational num/den (den > 0): floor(num/den + 1/2)
MathRound(num, den) == (2 * num + den) \div (2 * den)

\* String.prototype.includes
Includes(s, needle) ==
    \E i \in 1..(Len(s) - Len(needle) + 1) : SubSeq(s, i, i + Len(needle) - 1) = needle

LowerLetters == "abcdefghijklmnopqrstuvwxyz"

UpperLetters == "ABCDEFGHIJKLMNOPQRSTUVWXYZ"

UpperChar(c) ==
    IF \E i \in 1..26 : SubSeq(LowerLetters, i, i) = c
    THEN LET i == CHOOSE j \in 1..26 : SubSeq(LowerLetters, j, j) = c
         IN  SubSeq(UpperLetters, i, i)
    ELSE c

RECURSIVE toUpperCase(_)
toUpperCase(s) ==
    IF Len(s) = 0 THEN ""
    ELSE UpperChar(SubSeq(s, 1, 1)) \o toUpperCase(SubSeq(s, 2, Len(s)))

DigitValue(c) == CHOOSE d \in 0..9 : SubSeq("0123456789", d + 1, d + 1) = c

RECURSIVE ParseDigits(_, _)
ParseDigits(s, acc) ==
    IF Len(s) = 0 THEN acc
    ELSE ParseDigits(SubSeq(s, 2, Len(s)), 10 * acc + DigitValue(SubSeq(s, 1, 1)))

\* parseFloat of a whole-degree coordinate string such as "28" or "-33"
parseFloat(s) ==
    IF SubSeq(s, 1, 1) = "-" THEN 0 - ParseDigits(SubSeq(s, 2, Len(s)), 0)
    ELSE ParseDigits(s, 0)

\* String.prototype.trim for leading/trailing spaces
RECURSIVE trim(_)
trim(s) ==
    IF Len(s) > 0 /\ SubSeq(s, 1, 1) = " " THEN trim(SubSeq(s, 2, Len(s)))
    ELSE IF Len(s) > 0 /\ SubSeq(s, Len(s), Len(s)) = " " THEN trim(SubSeq(s, 1, Len(s) - 1))
    ELSE s

\* the outcome of a try block or of an async call
Thrown(m) == [threw |-> TRUE, message |-> m]

Returned(x) == [threw |-> FALSE, value |-> x]

(***************************************************************************)
(* Messages                                                                *)
(***************************************************************************)
MsgGeocodeConnect == "Unable to connect to geocoding service."

MsgCityNotFound == "City not found. Please check the spelling and try again."

MsgValidateLater == "Unable to validate city. Please try again later."

MsgWeatherUnavailable == "Unable to fetch weather data for this location."

MsgAirQualityFetch == "Unable to fetch air quality data for this location."

MsgAirQualityNone ==
    "Air quality data is not available for this location. Please try a different city."

MsgEnterCity == "Please enter a city name."

\* what fetch() rejects with when the transport fails (Chrome, Firefox, Safari)
FetchRejectMessages ==
    {"Failed to fetch", "NetworkError when attempting to fetch resource.", "Load failed"}

\* what response.json() rejects with on a body that is not JSON
MsgJsonSyntax == "Unexpected token < in JSON at position 0"

\* reading a property of undefined or null
MsgTypeError == "Cannot read properties of undefined"

(***************************************************************************)
(* AQIService.validateCity                                                 *)
(***************************************************************************)
\* address.city || address.town || address.village || address.municipality || dflt
\* (an absent field and an empty one are both falsy: both are "")
PickCityName(address, dflt) ==
    IF address.city # "" THEN address.city
    ELSE IF address.town # "" THEN address.town
    ELSE IF address.village # "" THEN address.village
    ELSE IF address.municipality # "" THEN address.municipality
    ELSE dflt

\* address.country_code ? address.country_code.toUpperCase() : ''
PickCountry(address) ==
    IF address.country_code # "" THEN toUpperCase(address.country_code) ELSE ""

NoAddress == [city |-> "", town |-> "", village |-> "", municipality |-> "", country_code |-> ""]

\* x.address || {}
AddressOf(x) == IF x.hasAddress THEN x.address ELSE NoAddress

\* the try block, lines 14-44
validateCityTry(city, resp) ==
    IF resp.net = "reject" THEN Thrown(resp.message)
    ELSE IF ~resp.ok THEN Thrown(MsgGeocodeConnect)
    ELSE IF resp.body.json = "invalid" THEN Thrown(MsgJsonSyntax)
    ELSE IF resp.body.json = "null" THEN Thrown(MsgCityNotFound)
    ELSE IF Len(resp.body.items) = 0 THEN Thrown(MsgCityNotFound)
    ELSE LET location == resp.body.items[1]
             address == AddressOf(location)
         IN  Returned([lat |-> parseFloat(location.lat),
                       lon |-> parseFloat(location.lon),
                       cityName |-> PickCityName(address, city),
                       country |-> PickCountry(address),
                       displayName |-> location.display_name])

\* the catch block with the two plausible slips: every failure reported as
\* "try again later", every failure reported as "not found"
validateCityCatchAlwaysLater(message) == Thrown(MsgValidateLater)

validateCityCatchAlwaysNotFound(message) == Thrown(MsgCityNotFound)

\* the catch block, lines 45-50

validateCityCatch(message) ==
    IF Includes(message, "not found") THEN Thrown(MsgCityNotFound)
    ELSE Thrown(MsgValidateLater)

validateCity(city, resp) ==
    LET r == validateCityTry(city, resp)
    IN  IF r.threw THEN validateCityCatch(r.message) ELSE r

(***************************************************************************)
(* AQIService.getCityByCoords                                              *)
(***************************************************************************)
\* the try block, lines 54-73
getCityByCoordsTry(lat, lon, resp) ==
    IF resp.net = "reject" THEN Thrown(resp.message)
    ELSE IF ~resp.ok THEN Thrown("Unable to fetch location name.")
    ELSE IF resp.body.json = "invalid" THEN Thrown(MsgJsonSyntax)
    ELSE IF resp.body.json = "null" THEN Thrown(MsgTypeError)
    ELSE LET data == resp.body.data
             address == AddressOf(data)
         IN  Returned([lat |-> lat,
                       lon |-> lon,
                       cityName |-> PickCityName(address, "Unknown Location"),
                       country |-> PickCountry(address),
                       displayName |-> data.display_name])

\* getCityByCoords without its catch block
getCityByCoordsRethrow(lat, lon, resp) == getCityByCoordsTry(lat, lon, resp)

\* the fallback object has no displayName property: reading it gives undefined,
\* as does data.display_name of a response without one; both are ""
getCityByCoords(lat, lon, resp) ==
    LET r == getCityByCoordsTry(lat, lon, resp)
    IN  IF r.threw
        THEN Returned([lat |-> lat, lon |-> lon, cityName |-> "Current Location",
                       country |-> "", displayName |-> ""])
        ELSE r

(***************************************************************************)
(* AQIService.getWeatherDescription                                        *)
(***************************************************************************)
weatherCodes ==
    (0 :> "Clear") @@ (1 :> "Mainly Clear") @@ (2 :> "Partly Cloudy") @@ (3 :> "Overcast") @@
    (45 :> "Foggy") @@ (48 :> "Depositing Rime Fog") @@ (51 :> "Light Drizzle") @@
    (53 :> "Moderate Drizzle") @@ (55 :> "Dense Drizzle") @@ (56 :> "Light Freezing Drizzle") @@
    (57 :> "Dense Freezing Drizzle") @@ (61 :> "Slight Rain") @@ (63 :> "Moderate Rain") @@
    (65 :> "Heavy Rain") @@ (66 :> "Light Freezing Rain") @@ (67 :> "Heavy Freezing Rain") @@
    (71 :> "Slight Snow") @@ (73 :> "Moderate Snow") @@ (75 :> "Heavy Snow") @@
    (77 :> "Snow Grains") @@ (80 :> "Slight Rain Showers") @@ (81 :> "Moderate Rain Showers") @@
    (82 :> "Violent Rain Showers") @@ (85 :> "Slight Snow Showers") @@
    (86 :> "Heavy Snow Showers") @@ (95 :> "Thunderstorm") @@ (96 :> "Thunderstorm/Hail") @@
    (99 :> "Heavy Thunderstorm")

getWeatherDescription(code) ==
    IF code \in DOMAIN weatherCodes THEN weatherCodes[code] ELSE "Clear"

(***************************************************************************)
(* AQIService.processForecast                                              *)
(***************************************************************************)
\* new Date(t) of an hourly timestamp "YYYY-MM-DDTHH:00", in hours since the epoch
DateOf(t) == t.day * 24 + t.hour

\* hourlyData.time.findIndex(t => new Date(t) >= now)
findIndex(time, now) ==
    IF \E i \in 1..Len(time) : DateOf(time[i]) >= now
    THEN (CHOOSE i \in 1..Len(time) :
             /\ DateOf(time[i]) >= now
             /\ \A j \in 1..(i - 1) : ~(DateOf(time[j]) >= now)) - 1
    ELSE -1

\* the loop of lines 167-175: iteration k = 1..5 is i = 5 - k
historyPoints(us_aqi, currentHourIndex) ==
    [k \in 1..5 |->
        LET index == currentHourIndex - (5 - k)
        IN  IF index >= 0 /\ index < Len(us_aqi)
            THEN At(us_aqi, index)
            ELSE OrElse(At(us_aqi, currentHourIndex), Num(50))]

\* lines 179-184
forecastPoint(us_aqi, currentHourIndex, dataPoints) ==
    LET nextIndex == currentHourIndex + 1
    IN  IF nextIndex < Len(us_aqi)
        THEN At(us_aqi, nextIndex)
        ELSE dataPoints[Len(dataPoints)]

\* processForecast without the early return of line 161
processForecastNoFallback(hourlyData, now) ==
    LET currentHourIndex == findIndex(hourlyData.time, now)
        dataPoints == historyPoints(hourlyData.us_aqi, currentHourIndex)
    IN  Append(dataPoints, forecastPoint(hourlyData.us_aqi, currentHourIndex, dataPoints))

processForecast(hourlyData, now) ==
    LET currentHourIndex == findIndex(hourlyData.time, now)
    IN  IF currentHourIndex = -1
        THEN <<Num(50), Num(50), Num(50), Num(50), Num(50), Num(50)>>
        ELSE LET dataPoints == historyPoints(hourlyData.us_aqi, currentHourIndex)
             IN  Append(dataPoints,
                        forecastPoint(hourlyData.us_aqi, currentHourIndex, dataPoints))

(***************************************************************************)
(* AQIService.getCityData                                                  *)
(* wresp, aresp: what the weather and the air-quality fetch produce;       *)
(* now: new Date() as read by processForecast                              *)
(***************************************************************************)
getCityData(cityData, wresp, aresp, now) ==
    IF wresp.net = "reject" THEN Thrown(wresp.message)
    ELSE IF ~wresp.ok THEN Thrown(MsgWeatherUnavailable)
    ELSE IF wresp.body.json = "invalid" THEN Thrown(MsgJsonSyntax)
    ELSE IF wresp.body.json = "null" THEN Thrown(MsgTypeError)
    ELSE IF aresp.net = "reject" THEN Thrown(aresp.message)
    ELSE IF ~aresp.ok THEN Thrown(MsgAirQualityFetch)
    ELSE IF aresp.body.json = "invalid" THEN Thrown(MsgJsonSyntax)
    ELSE IF aresp.body.json = "null" THEN Thrown(MsgTypeError)
    ELSE LET weatherData == wresp.body.data
             aqiData == aresp.body.data
         IN  IF ~aqiData.hasCurrent \/ aqiData.current.us_aqi.t \in {"null", "undefined"}
             THEN Thrown(MsgAirQualityNone)
             ELSE IF ~aqiData.hasHourly THEN Thrown(MsgTypeError)
             ELSE IF ~weatherData.hasCurrent THEN Thrown(MsgTypeError)
             ELSE LET current == weatherData.current
                      aqiCurrent == aqiData.current
                  IN  Returned(
                        [city |-> cityData.cityName,
                         country |-> cityData.country,
                         aqi |-> MathRound(aqiCurrent.us_aqi.v, 1),
                         temp |-> MathRound(current.temperature_2m, 10),
                         humidity |-> MathRound(current.relative_humidity_2m, 10),
                         wind |-> MathRound(current.wind_speed_10m * 36, 100),
                         pm25 |-> OrElse(aqiCurrent.pm2_5, Num(0)).v,
                         pm10 |-> OrElse(aqiCurrent.pm10, Num(0)).v,
                         o3 |-> OrElse(aqiCurrent.ozone, Num(0)).v,
                         weather |-> getWeatherDescription(current.weather_code),
                         forecast |-> processForecast(aqiData.hourly, now)])

(***************************************************************************)
(* AIAnalyst.analyze                                                       *)
(***************************************************************************)
\* the advice templates; the degree sign of the source is left out
AdviceGood(temp) ==
    "Currently, the air is pristine. It's a great time to open windows or go for a run. The temperature is "
    \o ToString(temp) \o "C, making it comfortable. Enjoy the fresh air!"

AdviceModerate(weather) ==
    "Air quality is acceptable. However, if you are unusually sensitive to pollution, consider limiting prolonged outdoor exertion. It's "
    \o weather \o " outside."

AdviceUnhealthy ==
    "Alert: Unhealthy air quality detected. Everyone may begin to experience health effects. Active children and adults should avoid prolonged outdoor exertion. Wear a mask if necessary."

AdviceHazardous(weather) ==
    "CRITICAL WARNING: Hazardous conditions! Avoid all physical activity outdoors. Keep windows closed. Run an air purifier if available. Visibility is low due to "
    \o weather \o "."

\* analyze with < for <= in its comparisons
analyzeStrict(data) ==
    IF data.aqi < 50 THEN [advice |-> AdviceGood(data.temp)]
    ELSE IF data.aqi < 100 THEN [advice |-> AdviceModerate(data.weather)]
    ELSE IF data.aqi < 200 THEN [advice |-> AdviceUnhealthy]
    ELSE [advice |-> AdviceHazardous(data.weather)]

analyze(data) ==
    IF data.aqi <= 50 THEN [advice |-> AdviceGood(data.temp)]
    ELSE IF data.aqi <= 100 THEN [advice |-> AdviceModerate(data.weather)]
    ELSE IF data.aqi <= 200 THEN [advice |-> AdviceUnhealthy]
    ELSE [advice |-> AdviceHazardous(data.weather)]

(***************************************************************************)
(* Inputs of the core operations                                           *)
(***************************************************************************)
\* longest hourly series drawn (7 covers t-4h..t+2h)
MaxLen == 7

\* AQI values 0..MaxAqi are drawn, and one very large one
MaxAqi == 203

Rejects == {[net |-> "reject", message |-> m] : m \in FetchRejectMessages}

Response(ok, body) == [net |-> "response", ok |-> ok, body |-> body]

\* an error page: the status is not 2xx and the body is not read
ErrorStatus == Response(FALSE, [json |-> "invalid"])

Addresses ==
    {[city |-> "Delhi", town |-> "", village |-> "", municipality |-> "", country_code |-> "in"],
     [city |-> "", town |-> "Leh", village |-> "", municipality |-> "", country_code |-> "in"],
     [city |-> "", town |-> "", village |-> "Malana", municipality |-> "Kullu", country_code |-> ""],
     [city |-> "", town |-> "", village |-> "", municipality |-> "Kullu", country_code |-> "in"],
     NoAddress}

\* one match of the forward lookup
Matches ==
    {[lat |-> la, lon |-> "77", hasAddress |-> TRUE, address |-> a, display_name |-> "place"] :
        la \in {"28", "-33"}, a \in Addresses}
    \cup {[lat |-> "28", lon |-> "77", hasAddress |-> FALSE, display_name |-> "place"]}

ForwardResponses ==
    Rejects \cup {ErrorStatus}
    \cup {Response(TRUE, [json |-> "invalid"]), Response(TRUE, [json |-> "null"]),
          Response(TRUE, [json |-> "array", items |-> <<>>])}
    \cup {Response(TRUE, [json |-> "array", items |-> <<m>>]) : m \in Matches}

\* what the reverse lookup answers: an address, or an error object without one
ReverseBodies ==
    {[hasAddress |-> TRUE, address |-> a, display_name |-> "place"] : a \in Addresses}
    \cup {[hasAddress |-> FALSE, display_name |-> ""]}

ReverseResponses ==
    Rejects \cup {ErrorStatus}
    \cup {Response(TRUE, [json |-> "invalid"]), Response(TRUE, [json |-> "null"])}
    \cup {Response(TRUE, [json |-> "object", data |-> d]) : d \in ReverseBodies}

\* temperature, humidity and wind speed are in tenths of their unit
WeatherBodies ==
    {[hasCurrent |-> FALSE],
     [hasCurrent |-> TRUE,
      current |-> [temperature_2m |-> 214, relative_humidity_2m |-> 605,
                   wind_speed_10m |-> 100, weather_code |-> 45]],
     [hasCurrent |-> TRUE,
      current |-> [temperature_2m |-> -35, relative_humidity_2m |-> 300,
                   wind_speed_10m |-> 24, weather_code |-> 9999]]}

WeatherResponses ==
    Rejects \cup {ErrorStatus}
    \cup {Response(TRUE, [json |-> "invalid"]), Response(TRUE, [json |-> "null"])}
    \cup {Response(TRUE, [json |-> "object", data |-> d]) : d \in WeatherBodies}

Hour(h) == [day |-> h \div 24, hour |-> h % 24]

\* an hourly series of n timestamps from hour 100 on and the values vals
Hourly(n, vals) == [time |-> [i \in 1..n |-> Hour(99 + i)], us_aqi |-> vals]

\* m values, all different (position i holds 10 + i), but for position p (if any),
\* which holds the value special
ValuesWith(m, p, special) == [i \in 1..m |-> IF i = p THEN special ELSE Num(10 + i)]

HourlySeries ==
    {Hourly(n, ValuesWith(m, p, sp)) :
        n \in 0..MaxLen, m \in 0..MaxLen, p \in 0..MaxLen, sp \in {Null, Num(0)}}

ShortSeries ==
    {Hourly(3, <<Num(40), Num(60), Num(180)>>), Hourly(2, <<Null, Num(0)>>), Hourly(0, <<>>)}

AqiBodies ==
    {[hasCurrent |-> FALSE, hasHourly |-> TRUE, hourly |-> Hourly(0, <<>>)]}
    \cup {[hasCurrent |-> TRUE, hasHourly |-> FALSE,
           current |-> [us_aqi |-> u, pm2_5 |-> Num(12), pm10 |-> Null, ozone |-> Undefined]] :
             u \in {Null, Undefined, Num(42)}}
    \cup {[hasCurrent |-> TRUE, hasHourly |-> TRUE, hourly |-> h,
           current |-> [us_aqi |-> u, pm2_5 |-> Num(12), pm10 |-> Null, ozone |-> Undefined]] :
             u \in {Null, Undefined, Num(0), Num(42), Num(151), Num(260)}, h \in ShortSeries}

AqiResponses ==
    Rejects \cup {ErrorStatus}
    \cup {Response(TRUE, [json |-> "invalid"]), Response(TRUE, [json |-> "null"])}
    \cup {Response(TRUE, [json |-> "object", data |-> d]) : d \in AqiBodies}

Locations ==
    {[lat |-> 28, lon |-> 77, cityName |-> "Delhi", country |-> "IN", displayName |-> "place"],
     [lat |-> -33, lon |-> 151, cityName |-> "Current Location", country |-> "", displayName |-> ""]}

AnalyzeArgs ==
    {[op |-> "analyze", data |-> [aqi |-> a, temp |-> t, weather |-> w]] :
        a \in (0..MaxAqi) \cup {1000000}, t \in {-4, 21}, w \in {"Clear", "Foggy"}}

ForecastArgs ==
    {[op |-> "processForecast", hourlyData |-> h, now |-> now] :
        h \in HourlySeries, now \in 99..(101 + MaxLen)}

ValidateArgs ==
    {[op |-> "validateCity", city |-> c, resp |-> r] :
        c \in {"", "Delhi", "Xyzzy"}, r \in ForwardResponses}

CoordsArgs ==
    {[op |-> "getCityByCoords", lat |-> la, lon |-> lo, resp |-> r] :
        la \in {28, -33}, lo \in {77}, r \in ReverseResponses}

CityDataArgs ==
    {[op |-> "getCityData", cityData |-> l, wresp |-> w, aresp |-> a, now |-> 101] :
        l \in Locations, w \in WeatherResponses, a \in AqiResponses}

NotRun == [done |-> FALSE]

Done(out) == [done |-> TRUE, out |-> out]

(***************************************************************************)
(* The controller's state after the script has loaded                      *)
(***************************************************************************)
NoRequest == [pc |-> "idle"]

NoDashboard == [written |-> FALSE]

UiInit ==
    /\ cityInput = ""
    /\ inputDisabled = FALSE
    /\ spinnerHidden = TRUE
    /\ cityNameDimmed = FALSE
    /\ errorHidden = TRUE
    /\ errorText = ""
    /\ errorTimers = 0
    /\ dashboard = NoDashboard
    /\ issued = 0
    /\ geolocation \in BOOLEAN

\* requests the model lets the user issue
MaxRequests == 2

(***************************************************************************)
(* The core operations, each called once on drawn arguments                *)
(***************************************************************************)
CoreInit ==
    /\ arg \in AnalyzeArgs \cup ForecastArgs \cup ValidateArgs \cup CoordsArgs \cup CityDataArgs
    /\ ret = NotRun
    /\ UiInit
    /\ req = [r \in 1..MaxRequests |-> NoRequest]

CallAnalyze ==
    /\ arg.op = "analyze" /\ ~ret.done
    /\ ret' = Done(analyze(arg.data))
    /\ UNCHANGED <<arg, uiVars>>

CallProcessForecast ==
    /\ arg.op = "processForecast" /\ ~ret.done
    /\ ret' = Done(processForecast(arg.hourlyData, arg.now))
    /\ UNCHANGED <<arg, uiVars>>

CallValidateCity ==
    /\ arg.op = "validateCity" /\ ~ret.done
    /\ ret' = Done(validateCity(arg.city, arg.resp))
    /\ UNCHANGED <<arg, uiVars>>

CallGetCityByCoords ==
    /\ arg.op = "getCityByCoords" /\ ~ret.done
    /\ ret' = Done(getCityByCoords(arg.lat, arg.lon, arg.resp))
    /\ UNCHANGED <<arg, uiVars>>

CallGetCityData ==
    /\ arg.op = "getCityData" /\ ~ret.done
    /\ ret' = Done(getCityData(arg.cityData, arg.wresp, arg.aresp, arg.now))
    /\ UNCHANGED <<arg, uiVars>>

CoreNext ==
    \/ CallAnalyze
    \/ CallProcessForecast
    \/ CallValidateCity
    \/ CallGetCityByCoords
    \/ CallGetCityData

CoreSpec == CoreInit /\ [][CoreNext]_vars

(***************************************************************************)
(* The frontend controller                                                 *)
(*                                                                         *)
(* A request is one run of fetchData or getUserLocation; requests are      *)
(* numbered in the order they are issued.  Each action runs a handler from *)
(* one suspension point to the next.  The awaits inside one service call   *)
(* (fetch, then response.json()) touch no controller state, so a service   *)
(* call resumes its caller in one step, with the responses it received.    *)
(***************************************************************************)
\* what the user may have typed into #city-input
TypedCities == {"", " Pune "}

UiForwardResponses ==
    {r \in ForwardResponses :
        \/ r.net = "reject" /\ r.message = "Failed to fetch"
        \/ r.net = "response" /\ ~r.ok
        \/ r.net = "response" /\ r.ok /\ r.body.json = "array" /\ r.body.items = <<>>
        \/ r.net = "response" /\ r.ok /\ r.body.json = "array" /\ Len(r.body.items) = 1
             /\ r.body.items[1].lat = "28" /\ ~r.body.items[1].hasAddress}

UiReverseResponses ==
    {r \in ReverseResponses :
        \/ r.net = "reject" /\ r.message = "Failed to fetch"
        \/ r.net = "response" /\ r.ok /\ r.body.json = "object" /\ ~r.body.data.hasAddress
        \/ r.net = "response" /\ r.ok /\ r.body.json = "object" /\ r.body.data.hasAddress
             /\ r.body.data.address.town = "Leh"}

UiWeatherResponses ==
    {r \in WeatherResponses :
        \/ r.net = "reject" /\ r.message = "Failed to fetch"
        \/ r.net = "response" /\ ~r.ok
        \/ r.net = "response" /\ r.ok /\ r.body.json = "object" /\ r.body.data.hasCurrent
             /\ r.body.data.current.weather_code = 45}

UiAqiResponses ==
    {r \in AqiResponses :
        \/ r.net = "response" /\ ~r.ok
        \/ r.net = "response" /\ r.ok /\ r.body.json = "object" /\ r.body.data.hasCurrent
             /\ r.body.data.hasHourly /\ Len(r.body.data.hourly.time) = 3
             /\ r.body.data.current.us_aqi \in {Null, Num(42), Num(151)}}

\* the badge text chosen by lines 370-399 (the classes, the icon and the smog
\* layer are set in the same branch)
badgeOf(aqi) ==
    IF aqi <= 50 THEN "Good"
    ELSE IF aqi <= 100 THEN "Moderate"
    ELSE IF aqi <= 200 THEN "Unhealthy"
    ELSE "Hazardous"

\* what updateDashboard(data, analysis) leaves on the page
updateDashboard(data, analysis) ==
    [written |-> TRUE,
     cityName |-> IF data.country # "" THEN data.city \o ", " \o data.country ELSE data.city,
     aqiValue |-> data.aqi, tempVal |-> data.temp, humidVal |-> data.humidity,
     windVal |-> data.wind, pm25Val |-> data.pm25, pm10Val |-> data.pm10, o3Val |-> data.o3,
     aiText |-> analysis.advice,
     badge |-> badgeOf(data.aqi),
     chart |-> data.forecast]

\* showError: the message is shown and a timer is set to hide it
showError(message) ==
    /\ errorText' = message
    /\ errorHidden' = FALSE
    /\ errorTimers' = errorTimers + 1

\* hideError, with the message and the timers left alone
hideError ==
    /\ errorHidden' = TRUE
    /\ UNCHANGED <<errorText, errorTimers>>

\* the setTimeout callback of showError, 5 s after it
ErrorTimeout ==
    /\ errorTimers > 0
    /\ errorTimers' = errorTimers - 1
    /\ errorHidden' = TRUE
    /\ UNCHANGED <<errorText, cityInput, inputDisabled, spinnerHidden, cityNameDimmed,
                   dashboard, req, issued, geolocation, coreVars>>

\* the user edits #city-input (a disabled input takes no typing)
TypeCity(c) ==
    /\ ~inputDisabled
    /\ cityInput # c
    /\ cityInput' = c
    /\ UNCHANGED <<inputDisabled, spinnerHidden, cityNameDimmed, errorHidden, errorText,
                   errorTimers, dashboard, req, issued, geolocation, coreVars>>

\* a catch block that also clears the dashboard
fetchDataCatchClears(message) ==
    /\ showError(message)
    /\ dashboard' = NoDashboard

\* the catch block of fetchData, lines 317-319 (error.message is never empty)
fetchDataCatch(message) ==
    /\ showError(message)
    /\ UNCHANGED dashboard

\* fetchData without its finally block
fetchDataNoFinally == UNCHANGED <<spinnerHidden, cityNameDimmed, inputDisabled>>

\* the finally block of fetchData, lines 320-324
fetchDataFinally ==
    /\ spinnerHidden' = TRUE
    /\ cityNameDimmed' = FALSE
    /\ inputDisabled' = FALSE

\* fetchData's loading state, lines 294-297 (hideError apart)
fetchDataLoading ==
    /\ spinnerHidden' = FALSE
    /\ cityNameDimmed' = TRUE
    /\ inputDisabled' = TRUE

\* Enter in #city-input: fetchData() up to its first await (a disabled input
\* receives no key events)
FetchDataStart(r) ==
    /\ r = issued + 1 /\ r <= MaxRequests
    /\ ~inputDisabled
    /\ issued' = r
    /\ LET city == trim(cityInput)
       IN  IF city = ""
           THEN /\ showError(MsgEnterCity)
                /\ req' = [req EXCEPT ![r] = [pc |-> "done", kind |-> "fetchData",
                                              outcome |-> "error", message |-> MsgEnterCity]]
                /\ UNCHANGED <<spinnerHidden, cityNameDimmed, inputDisabled>>
           ELSE /\ hideError
                /\ fetchDataLoading
                /\ req' = [req EXCEPT ![r] = [pc |-> "validateCity", kind |-> "fetchData",
                                              city |-> city]]
    /\ UNCHANGED <<cityInput, dashboard, geolocation, coreVars>>

\* fetchData resumes after await api.validateCity(city), lines 306-324
ValidateCityReturns(r, resp) ==
    /\ req[r].pc = "validateCity"
    /\ LET res == validateCity(req[r].city, resp)
       IN  IF res.threw
           THEN /\ fetchDataCatch(res.message)
                /\ fetchDataFinally
                /\ req' = [req EXCEPT ![r] = [pc |-> "done", kind |-> req[r].kind,
                                              outcome |-> "error", message |-> res.message]]
           ELSE /\ req' = [req EXCEPT ![r] = [pc |-> "getCityData", kind |-> req[r].kind,
                                              cityData |-> res.value]]
                /\ UNCHANGED <<spinnerHidden, cityNameDimmed, inputDisabled,
                               errorHidden, errorText, errorTimers, dashboard>>
    /\ UNCHANGED <<cityInput, issued, geolocation, coreVars>>

\* fetchData resumes after await api.getCityData(cityData), lines 310-324
GetCityDataReturns(r, wresp, aresp, now) ==
    /\ req[r].pc = "getCityData"
    /\ LET res == getCityData(req[r].cityData, wresp, aresp, now)
       IN  IF res.threw
           THEN /\ fetchDataCatch(res.message)
                /\ req' = [req EXCEPT ![r] = [pc |-> "done", kind |-> req[r].kind,
                                              outcome |-> "error", message |-> res.message]]
           ELSE /\ dashboard' = updateDashboard(res.value, analyze(res.value))
                /\ req' = [req EXCEPT ![r] = [pc |-> "done", kind |-> req[r].kind,
                                              outcome |-> "ok", data |-> res.value]]
                /\ UNCHANGED <<errorHidden, errorText, errorTimers>>
    /\ fetchDataFinally
    /\ UNCHANGED <<cityInput, issued, geolocation, coreVars>>

\* the geolocation button: getUserLocation up to getCurrentPosition, lines 244-254
GetUserLocationStart(r) ==
    /\ r = issued + 1 /\ r <= MaxRequests
    /\ issued' = r
    /\ IF ~geolocation
       THEN /\ showError("Geolocation is not supported by your browser.")
            /\ req' = [req EXCEPT ![r] =
                          [pc |-> "done", kind |-> "getUserLocation", outcome |-> "error",
                           message |-> "Geolocation is not supported by your browser."]]
            /\ UNCHANGED spinnerHidden
       ELSE /\ hideError
            /\ spinnerHidden' = FALSE
            /\ req' = [req EXCEPT ![r] = [pc |-> "getCurrentPosition", kind |-> "getUserLocation"]]
    /\ UNCHANGED <<cityInput, inputDisabled, cityNameDimmed, dashboard, geolocation, coreVars>>

positionErrorMessage(code) ==
    IF code = 3 THEN "Location request timed out."
    ELSE IF code = 2 THEN "Location unavailable."
    ELSE IF code = 1 THEN "Location permission denied."
    ELSE "Error getting location."

\* the error callback of getCurrentPosition, lines 273-280
PositionError(r, code) ==
    /\ req[r].pc = "getCurrentPosition"
    /\ spinnerHidden' = TRUE
    /\ showError(positionErrorMessage(code))
    /\ req' = [req EXCEPT ![r] = [pc |-> "done", kind |-> "getUserLocation", outcome |-> "error",
                                  message |-> positionErrorMessage(code)]]
    /\ UNCHANGED <<cityInput, inputDisabled, cityNameDimmed, dashboard, issued, geolocation,
                   coreVars>>

\* the success callback of getCurrentPosition up to its await, lines 255-260
PositionSuccess(r, latitude, longitude) ==
    /\ req[r].pc = "getCurrentPosition"
    /\ req' = [req EXCEPT ![r] = [pc |-> "getCityByCoords", kind |-> "getUserLocation",
                                  latitude |-> latitude, longitude |-> longitude]]
    /\ UNCHANGED <<cityInput, inputDisabled, spinnerHidden, cityNameDimmed, errorHidden,
                   errorText, errorTimers, dashboard, issued, geolocation, coreVars>>

\* the success callback resumes after await api.getCityByCoords, lines 260-271:
\* fetchData(null, cityData) runs to its first await, then the input box is set
GetCityByCoordsReturns(r, resp) ==
    /\ req[r].pc = "getCityByCoords"
    /\ LET res == getCityByCoords(req[r].latitude, req[r].longitude, resp)
       IN  IF res.threw
           THEN /\ spinnerHidden' = TRUE
                /\ showError("Could not retrieve your location.")
                /\ req' = [req EXCEPT ![r] =
                              [pc |-> "done", kind |-> "getUserLocation", outcome |-> "error",
                               message |-> "Could not retrieve your location."]]
                /\ UNCHANGED <<cityInput, inputDisabled, cityNameDimmed>>
           ELSE /\ hideError
                /\ fetchDataLoading
                /\ cityInput' = res.value.cityName
                /\ req' = [req EXCEPT ![r] = [pc |-> "getCityData", kind |-> "getUserLocation",
                                              cityData |-> res.value]]
    /\ UNCHANGED <<dashboard, issued, geolocation, coreVars>>

Init ==
    /\ UiInit
    /\ req = [r \in 1..MaxRequests |-> NoRequest]
    /\ arg = [op |-> "none"]
    /\ ret = NotRun

Next ==
    \/ \E c \in TypedCities : TypeCity(c)
    \/ \E r \in 1..MaxRequests : FetchDataStart(r)
    \/ \E r \in 1..MaxRequests, resp \in UiForwardResponses : ValidateCityReturns(r, resp)
    \/ \E r \in 1..MaxRequests, wresp \in UiWeatherResponses, aresp \in UiAqiResponses :
          GetCityDataReturns(r, wresp, aresp, 101)
    \/ \E r \in 1..MaxRequests : GetUserLocationStart(r)
    \/ \E r \in 1..MaxRequests, code \in 1..3 : PositionError(r, code)
    \/ \E r \in 1..MaxRequests : PositionSuccess(r, 34, 77)
    \/ \E r \in 1..MaxRequests, resp \in UiReverseResponses : GetCityByCoordsReturns(r, resp)
    \/ ErrorTimeout

Spec == Init /\ [][Next]_vars

(***************************************************************************)
(* Properties of the core operations (checked under CoreSpec)              *)
(***************************************************************************)
Ran(op) == arg.op = op /\ ret.done

\* the band an advisory text speaks of
BandOf(advice) ==
    CASE Includes(advice, "the air is pristine") -> "Good"
      [] Includes(advice, "Air quality is acceptable") -> "Moderate"
      [] Includes(advice, "Unhealthy air quality detected") -> "Unhealthy"
      [] Includes(advice, "Hazardous conditions") -> "Hazardous"
      [] OTHER -> "none"

\* C2: analyze answers for every AQI value v >= 0, with exactly one band:
\* Good for v <= 50, Moderate for 51..100, Unhealthy for 101..200, Hazardous
\* from 201 on (so 50 Good, 51 and 100 Moderate, 101 and 200 Unhealthy, 201
\* Hazardous).
AnalyzeBands ==
    Ran("analyze") =>
        LET v == arg.data.aqi
            band == BandOf(ret.out.advice)
        IN  /\ band \in {"Good", "Moderate", "Unhealthy", "Hazardous"}
            /\ (band = "Good") = (v <= 50)
            /\ (band = "Moderate") = (v \in 51..100)
            /\ (band = "Unhealthy") = (v \in 101..200)
            /\ (band = "Hazardous") = (v >= 201)

AnalyzeBandsWitness ==
    /\ Ran("analyze")
    /\ arg.data.aqi = 1000000
    /\ BandOf(ret.out.advice) = "Hazardous"

\* C3: processForecast returns exactly 6 elements, each a non-negative
\* integer, whatever the hourly series holds (null entries included).
ForecastSixNonNegative ==
    Ran("processForecast") =>
        /\ Len(ret.out) = 6
        /\ \A i \in 1..Len(ret.out) : ret.out[i].t = "number" /\ ret.out[i].v >= 0

\* no timestamp of the series is at or after now
AllInPast(time, now) == \A i \in 1..Len(time) : DateOf(time[i]) < now

\* C8: when no timestamp of the hourly series is >= now (all in the past, or
\* an empty series), processForecast returns [50,50,50,50,50,50].
ForecastFallback ==
    (Ran("processForecast") /\ AllInPast(arg.hourlyData.time, arg.now)) =>
        ret.out = <<Num(50), Num(50), Num(50), Num(50), Num(50), Num(50)>>

ForecastFallbackWitness ==
    /\ Ran("processForecast")
    /\ Len(arg.hourlyData.time) = 3
    /\ Len(arg.hourlyData.us_aqi) = 3
    /\ AllInPast(arg.hourlyData.time, arg.now)
    /\ ret.out[6] = Num(50)

\* a value the provider did not give
Unavailable(x) == x.t \in {"null", "undefined"}

\* C9: with c the index of the first timestamp >= now, the result holds for
\* k = 4,3,2,1,0 the value at index c-k when that index is within bounds and
\* otherwise the value at c (50 only if the value at c is unavailable); the
\* sixth element is the value at c+1 when within bounds, else the fifth again.
ForecastWindow ==
    (Ran("processForecast") /\ ~AllInPast(arg.hourlyData.time, arg.now)) =>
        LET c == findIndex(arg.hourlyData.time, arg.now)
            v == arg.hourlyData.us_aqi
            out == ret.out
        IN  /\ \A k \in 0..4 :
                  out[5 - k] = IF c - k >= 0 /\ c - k < Len(v) THEN v[c - k + 1]
                               ELSE IF Unavailable(At(v, c)) THEN Num(50)
                               ELSE At(v, c)
            /\ out[6] = IF c + 1 < Len(v) THEN v[c + 2] ELSE out[5]

\* a response that is the provider's answer with a success status and a JSON object
Succeeded(resp) == resp.net = "response" /\ resp.ok /\ resp.body.json = "object"

\* the transport failed, or the status is not a success
Failed(resp) == resp.net = "reject" \/ (resp.net = "response" /\ ~resp.ok)

AqiPresent(resp) ==
    /\ Succeeded(resp)
    /\ resp.body.data.hasCurrent
    /\ resp.body.data.current.us_aqi.t = "number"

\* C4: getCityData returns a record only when the weather retrieval and the
\* air-quality retrieval succeeded and the current AQI is present; otherwise
\* it fails. A null or absent current AQI gives the "try a different city"
\* error even when the weather retrieval succeeded, and a weather retrieval
\* failure gives the weather-unavailable error.
CityDataFailsClosed ==
    Ran("getCityData") =>
        LET complete == Succeeded(arg.wresp) /\ AqiPresent(arg.aresp)
        IN  /\ ~ret.out.threw => complete
            /\ ~complete => ret.out.threw
            /\ (Succeeded(arg.wresp) /\ Succeeded(arg.aresp) /\ ~AqiPresent(arg.aresp)) =>
                   (ret.out.threw /\ ret.out.message = MsgAirQualityNone)
            /\ Failed(arg.wresp) =>
                   (ret.out.threw /\ ret.out.message = MsgWeatherUnavailable)

NoAddressAnswer(resp) == Succeeded(resp) /\ ~resp.body.data.hasAddress

\* C5 as stated: getCityByCoords never fails, and when the lookup's transport
\* fails, its status is not a success, or its answer has no address, the
\* result is "Current Location" with country "" and the input coordinates.
ReverseLookupCurrentLocation ==
    Ran("getCityByCoords") =>
        /\ ~ret.out.threw
        /\ (Failed(arg.resp) \/ NoAddressAnswer(arg.resp)) =>
               /\ ret.out.value.cityName = "Current Location"
               /\ ret.out.value.country = ""
               /\ ret.out.value.lat = arg.lat
               /\ ret.out.value.lon = arg.lon

\* C5, amended: getCityByCoords never fails and always returns the input
\* coordinates; a failed transport or a non-success status gives "Current
\* Location" with country "", and an answer without an address gives
\* "Unknown Location" with country "".
ReverseLookupDegrades ==
    Ran("getCityByCoords") =>
        /\ ~ret.out.threw
        /\ ret.out.value.lat = arg.lat
        /\ ret.out.value.lon = arg.lon
        /\ Failed(arg.resp) =>
               (ret.out.value.cityName = "Current Location" /\ ret.out.value.country = "")
        /\ NoAddressAnswer(arg.resp) =>
               (ret.out.value.cityName = "Unknown Location" /\ ret.out.value.country = "")

ReverseLookupDegradesWitness ==
    /\ Ran("getCityByCoords")
    /\ arg.resp.net = "reject"
    /\ arg.lat = -33
    /\ ret.out.value.cityName = "Current Location"

\* the geocoding service answered with a success status and no match
ZeroMatches(resp) ==
    /\ resp.net = "response" /\ resp.ok
    /\ \/ resp.body.json = "null"
       \/ resp.body.json = "array" /\ Len(resp.body.items) = 0

\* C6 as stated: validateCity fails with the "City not found" error whenever
\* the query is the empty string or the service returns zero matches.
EmptyOrZeroMatchesNotFound ==
    (Ran("validateCity") /\ (arg.city = "" \/ ZeroMatches(arg.resp))) =>
        (ret.out.threw /\ ret.out.message = MsgCityNotFound)

\* C6, amended: validateCity fails with the "City not found" error, and
\* returns no location, whenever the service answers with zero matches,
\* whatever the query (the empty string included).
ZeroMatchesNotFound ==
    (Ran("validateCity") /\ ZeroMatches(arg.resp)) =>
        (ret.out.threw /\ ret.out.message = MsgCityNotFound)

ZeroMatchesNotFoundWitness ==
    /\ Ran("validateCity")
    /\ arg.city = "Xyzzy"
    /\ arg.resp.net = "response" /\ arg.resp.ok
    /\ arg.resp.body.json = "array" /\ Len(arg.resp.body.items) = 0
    /\ ret.out.threw

\* C7: validateCity fails with the service-unavailable error ("Unable to
\* validate city"), a message other than the not-found one, whenever the
\* transport fails or the status is not a success; such a failure is never
\* reported as not found, and zero matches never as service unavailable.
TransportFailureIsServiceUnavailable ==
    /\ MsgValidateLater # MsgCityNotFound
    /\ (Ran("validateCity") /\ Failed(arg.resp)) =>
           (ret.out.threw /\ ret.out.message = MsgValidateLater
                          /\ ret.out.message # MsgCityNotFound)
    /\ (Ran("validateCity") /\ ZeroMatches(arg.resp)) =>
           (ret.out.threw /\ ret.out.message # MsgValidateLater)

TransportFailureWitness ==
    /\ Ran("validateCity")
    /\ arg.resp.net = "reject"
    /\ ret.out.threw
    /\ ret.out.message = MsgValidateLater

(***************************************************************************)
(* Properties of the controller (checked under Spec)                       *)
(***************************************************************************)
\* request r ran updateDashboard
Wrote(r) == req[r].pc = "done" /\ req[r].outcome = "ok"

NoneInFlight == \A r \in 1..MaxRequests : req[r].pc \in {"idle", "done"}

\* the page dash shows the conditions d and the advisory computed from d
ShowsOn(dash, d) ==
    /\ dash.written
    /\ dash.cityName = (IF d.country # "" THEN d.city \o ", " \o d.country ELSE d.city)
    /\ dash.aqiValue = d.aqi
    /\ dash.tempVal = d.temp
    /\ dash.humidVal = d.humidity
    /\ dash.windVal = d.wind
    /\ dash.chart = d.forecast
    /\ \/ d.aqi <= 50 /\ dash.aiText = AdviceGood(d.temp)
       \/ d.aqi \in 51..100 /\ dash.aiText = AdviceModerate(d.weather)
       \/ d.aqi \in 101..200 /\ dash.aiText = AdviceUnhealthy
       \/ d.aqi >= 201 /\ dash.aiText = AdviceHazardous(d.weather)

\* C1: when requests overlap, the response of an older request never
\* overwrites what a newer request put on the dashboard: once no request is
\* in flight, the dashboard shows the result of the last-issued request that
\* produced one.
LastIssuedRequestWins ==
    NoneInFlight =>
        \A r \in 1..MaxRequests :
            (Wrote(r) /\ \A q \in (r + 1)..MaxRequests : ~(req[q].pc = "done" /\ req[q].outcome = "ok"))
                => ShowsOn(dashboard, req[r].data)

\* C10: the dashboard is written only by a fetchData whose getCityData
\* succeeded, with that record and the advisory computed from it; a request
\* that fails (location resolution, getCityData, or an empty input) leaves
\* the dashboard as it was and shows its error message.
DashboardWrittenOnlyOnSuccess ==
    [][/\ dashboard' # dashboard =>
             \E r \in 1..MaxRequests :
                 /\ req[r].pc = "getCityData"
                 /\ req'[r].pc = "done" /\ req'[r].outcome = "ok"
                 /\ ShowsOn(dashboard', req'[r].data)
       /\ \A r \in 1..MaxRequests :
             (req[r].pc # "done" /\ req'[r].pc = "done" /\ req'[r].outcome = "error") =>
                 /\ dashboard' = dashboard
                 /\ ~errorHidden'
                 /\ errorText' = req'[r].message]_vars

DashboardWrittenOnlyOnSuccessWitness ==
    /\ req[1].pc = "done" /\ req[1].outcome = "ok"
    /\ req[2].pc = "done" /\ req[2].outcome = "error"
    /\ req[2].kind = "fetchData" /\ req[2].message = MsgAirQualityNone
    /\ ShowsOn(dashboard, req[1].data)
    /\ ~errorHidden /\ errorText = MsgAirQualityNone

\* C11: the loading state is always released: whatever requests were issued
\* and however each ended (success, resolver error, aggregator error,
\* geolocation error), once every issued request has completed and none is
\* in flight, the loading spinner is hidden and the city input is enabled.
LoadingStateReleased ==
    NoneInFlight => (spinnerHidden /\ ~inputDisabled)

\* two requests that overlapped have both completed: the typed one, issued
\* first, wrote the dashboard after the geolocation one did
LoadingStateReleasedWitness ==
    /\ issued = 2
    /\ NoneInFlight
    /\ req[1].kind = "fetchData" /\ req[1].outcome = "ok"
    /\ req[2].kind = "getUserLocation" /\ req[2].outcome = "ok"
    /\ req[1].data.city # req[2].data.city
    /\ ShowsOn(dashboard, req[1].data)
    /\ spinnerHidden /\ ~inputDisabled

====
